---- MODULE Spec2Model ----
(***************************************************************************)
(* JARVIS: the ReAct orchestration loop (cognitive/planner.py), the        *)
(* terminal skill with its command classifier (skills/terminal.py), the    *)
(* default confirmation rule (skills/base_skill.py) and the security       *)
(* lists (config.py).                                                      *)
(*                                                                         *)
(* Text is modelled as a sequence of strings: a command is the sequence of *)
(* its characters, an f-string is the sequence of its pieces.  A Python    *)
(* object is a record with a cls field naming its class.                   *)
(***************************************************************************)
EXTENDS Integers, Sequences, FiniteSets, TLC

\* ------------------------------------------------------------------ bounds

\* Largest number of tool calls in one reasoning response.
MaxBatch == 2

\* Number of tool calls of a request that may be arbitrary (ToolCallChoices);
\* every other tool call is UnknownCall.
MaxRichCalls == 1

\* ------------------------------------------------------- program constants

\* ReActPlanner.MAX_ITERATIONS
MAX_ITERATIONS == 10

\* SecurityConfig.confirmation_timeout, in seconds. Neither plan_and_execute,
\* _execute_tool_calls nor Jarvis._handle_confirmation reads it.
confirmation_timeout == 30

\* SecurityConfig.safe_commands
safe_commands ==
  << <<"d", "i", "r">>,
     <<"l", "s">>,
     <<"c", "a", "t">>,
     <<"t", "y", "p", "e">>,
     <<"e", "c", "h", "o">>,
     <<"p", "w", "d">>,
     <<"c", "d">>,
     <<"w", "h", "o", "a", "m", "i">>,
     <<"d", "a", "t", "e">>,
     <<"t", "i", "m", "e">>,
     <<"h", "o", "s", "t", "n", "a", "m", "e">>,
     <<"p", "y", "t", "h", "o", "n", " ", "-", "-", "v", "e", "r", "s", "i", "o", "n">>,
     <<"p", "i", "p", " ", "l", "i", "s", "t">>,
     <<"n", "o", "d", "e", " ", "-", "-", "v", "e", "r", "s", "i", "o", "n">> >>

\* SecurityConfig.forbidden_commands
forbidden_commands ==
  << <<"r", "m", " ", "-", "r", "f">>,
     <<"d", "e", "l", " ", "/", "f">>,
     <<"f", "o", "r", "m", "a", "t">>,
     <<"m", "k", "f", "s">>,
     <<"s", "h", "u", "t", "d", "o", "w", "n">>,
     <<"r", "e", "b", "o", "o", "t">>,
     <<"h", "a", "l", "t">>,
     <<"D", "R", "O", "P">>,
     <<"D", "E", "L", "E", "T", "E", " ", "F", "R", "O", "M">>,
     <<"T", "R", "U", "N", "C", "A", "T", "E">> >>

\* The fixed texts of the planner (the source's Chinese literals, in English).
\* "抱歉，任务过于复杂，无法在限定步骤内完成。"
TooComplexText == <<"Sorry, the task is too complex to finish within the step limit.">>
\* "抱歉，处理请求时出现错误: "
ApologyPrefix == "Sorry, an error occurred while processing the request: "
\* "用户拒绝执行此操作"
UserDeniedText == <<"The user refused to execute this operation">>
\* "未知的技能: "
UnknownSkillPrefix == "Unknown skill: "
\* "命令被拒绝：包含禁止的操作"
CommandRejectedText == <<"Command rejected: it contains a forbidden operation">>
\* "命令不在安全列表中: "
NotInSafeListPrefix == "Command is not in the safe list: "
\* "未知的操作: "
UnknownActionPrefix == "Unknown action: "
\* "命令执行超时（{timeout}秒）"
TimeoutText == <<"Command timed out (", "timeout", " seconds)">>
\* "命令返回非零状态码: "
NonZeroPrefix == "Command returned a non-zero status code: "

\* ------------------------------------------------------------ Python values

PyNone == [cls |-> "NoneType"]
PyStr(t) == [cls |-> "str", v |-> t]

BaseSkillResultCls == "skills.base_skill.SkillResult"
PlannerSkillResultCls == "cognitive.planner.SkillResult"

\* skills/base_skill.py: the dataclass the skills construct.
BaseSkillResult(success, output, error) ==
  [cls |-> BaseSkillResultCls, success |-> success, output |-> output, error |-> error]

\* cognitive/planner.py: the dataclass of the same name the planner tests for.
PlannerSkillResult(success, output, error) ==
  [cls |-> PlannerSkillResultCls, success |-> success, output |-> output, error |-> error]

\* json.dumps accepts str, None, bool, numbers and dicts/lists of them; a
\* dataclass instance raises TypeError.
JsonSerializable(v) ==
  v.cls \in {"NoneType", "str", "dict"}

\* ---------------------------------------------------------------- str ops

IsSpace(c) == c \in {" ", "\t"}

UpperToLower ==
  ("A" :> "a") @@ ("B" :> "b") @@ ("C" :> "c") @@ ("D" :> "d") @@ ("E" :> "e") @@
  ("F" :> "f") @@ ("G" :> "g") @@ ("H" :> "h") @@ ("I" :> "i") @@ ("J" :> "j") @@
  ("K" :> "k") @@ ("L" :> "l") @@ ("M" :> "m") @@ ("N" :> "n") @@ ("O" :> "o") @@
  ("P" :> "p") @@ ("Q" :> "q") @@ ("R" :> "r") @@ ("S" :> "s") @@ ("T" :> "t") @@
  ("U" :> "u") @@ ("V" :> "v") @@ ("W" :> "w") @@ ("X" :> "x") @@ ("Y" :> "y") @@
  ("Z" :> "z")

\* str.lower()
lower(s) ==
  [i \in 1..Len(s) |-> IF s[i] \in DOMAIN UpperToLower THEN UpperToLower[s[i]] ELSE s[i]]

RECURSIVE lstrip(_)
lstrip(s) ==
  IF s # <<>> /\ IsSpace(Head(s)) THEN lstrip(Tail(s)) ELSE s

RECURSIVE rstrip(_)
rstrip(s) ==
  IF s # <<>> /\ IsSpace(s[Len(s)]) THEN rstrip(SubSeq(s, 1, Len(s) - 1)) ELSE s

\* str.strip()
strip(s) == rstrip(lstrip(s))

\* sub in s
Contains(s, sub) ==
  \E i \in 0..(Len(s) - Len(sub)) : SubSeq(s, i + 1, i + Len(sub)) = sub

\* s.startswith(p)
startswith(s, p) ==
  Len(p) <= Len(s) /\ SubSeq(s, 1, Len(p)) = p

RECURSIVE UntilSpace(_)
UntilSpace(s) ==
  IF s = <<>> \/ IsSpace(Head(s)) THEN <<>> ELSE <<Head(s)>> \o UntilSpace(Tail(s))

\* s.split()[0] if s.split() else ""
first_word(s) == UntilSpace(lstrip(s))

\* ------------------------------------------------- skills/terminal.py, pure

\* A mutant of _is_command_safe: the deny-list compared case-sensitively.
_is_command_safe_case_sensitive(command) ==
  \A k \in 1..Len(forbidden_commands) :
    ~Contains(strip(command), forbidden_commands[k])

\* A mutant of _is_command_safe: every command passes.
_is_command_safe_always(command) == TRUE

\* TerminalSkill._is_command_safe
_is_command_safe(command) ==
  LET command_lower == strip(lower(command))
  IN  \A k \in 1..Len(forbidden_commands) :
        ~Contains(command_lower, lower(forbidden_commands[k]))

\* TerminalSkill._is_command_readonly
_is_command_readonly(command) ==
  LET command_lower == strip(lower(command))
      fw == first_word(command_lower)
  IN  \E k \in 1..Len(safe_commands) :
        \/ startswith(command_lower, lower(safe_commands[k]))
        \/ fw = first_word(lower(safe_commands[k]))

\* params.get("command", "")
GetCommand(params) ==
  IF "command" \in DOMAIN params THEN params.command ELSE <<>>

\* A mutant of TerminalNeedsConfirmation: no command asks for confirmation.
TerminalNeedsConfirmation_never(params) == FALSE

\* TerminalSkill.needs_confirmation
TerminalNeedsConfirmation(params) ==
  IF _is_command_readonly(GetCommand(params)) THEN FALSE ELSE TRUE

\* skills/base_skill.py PermissionLevel
PermissionLevel == {"READ_ONLY", "SAFE_WRITE", "CRITICAL"}

\* A mutant of BaseNeedsConfirmation: every level asks for confirmation.
BaseNeedsConfirmation_always(permission_level) == TRUE

\* BaseSkill.needs_confirmation
BaseNeedsConfirmation(permission_level) ==
  permission_level = "CRITICAL"

\* WebBrowserSkill.permission_level
WebBrowserPermissionLevel == "READ_ONLY"

\* TerminalSkill.permission_level
TerminalPermissionLevel == "CRITICAL"

\* A mutant of TerminalExecute: run_safe_command without the read-only test.
TerminalExecute_safe_unchecked(arguments) ==
  IF "action" \notin DOMAIN arguments
  THEN [kind |-> "raise", e |-> <<"execute() missing 1 required positional argument: action">>]
  ELSE IF arguments.action \notin {"run_command", "run_safe_command"}
  THEN [kind |-> "return",
        value |-> BaseSkillResult(FALSE, PyNone,
                                  PyStr(<<UnknownActionPrefix, arguments.action>>))]
  ELSE IF "command" \notin DOMAIN arguments
  THEN [kind |-> "return",
        value |-> BaseSkillResult(FALSE, PyNone,
                    PyStr(<<"missing 1 required positional argument: command">>))]
  ELSE IF ~_is_command_safe(GetCommand(arguments))
  THEN [kind |-> "return",
        value |-> BaseSkillResult(FALSE, PyNone, PyStr(CommandRejectedText))]
  ELSE [kind |-> "spawn"]

\* The value of TerminalSkill.execute before its first suspension: an
\* exception, a returned SkillResult, or the spawn of a subprocess.
\* execute(action, **params) -> _run_command / _run_safe_command.
TerminalExecute(arguments) ==
  LET command == GetCommand(arguments)
      refused == [kind |-> "return",
                  value |-> BaseSkillResult(FALSE, PyNone, PyStr(CommandRejectedText))]
      run_command ==
        IF ~_is_command_safe(command) THEN refused ELSE [kind |-> "spawn"]
  IN  IF "action" \notin DOMAIN arguments
      THEN [kind |-> "raise", e |-> <<"execute() missing 1 required positional argument: action">>]
      ELSE IF arguments.action \notin {"run_command", "run_safe_command"}
      THEN [kind |-> "return",
            value |-> BaseSkillResult(FALSE, PyNone,
                                      PyStr(<<UnknownActionPrefix, arguments.action>>))]
      ELSE IF "command" \notin DOMAIN arguments
      THEN [kind |-> "return",
            value |-> BaseSkillResult(FALSE, PyNone,
                        PyStr(<<"missing 1 required positional argument: command">>))]
      ELSE IF arguments.action = "run_safe_command"
      THEN IF ~_is_command_readonly(command)
           THEN [kind |-> "return",
                 value |-> BaseSkillResult(FALSE, PyNone,
                                           PyStr(<<NotInSafeListPrefix>> \o command))]
           ELSE run_command
      ELSE run_command

\* _run_command after the subprocess has exited with returncode rc.
TerminalExited(rc) ==
  IF rc = 0
  THEN BaseSkillResult(TRUE, [cls |-> "dict", returncode |-> rc], PyNone)
  ELSE BaseSkillResult(FALSE, [cls |-> "dict", returncode |-> rc],
                       PyStr(<<NonZeroPrefix, ToString(rc)>>))

\* _run_command when asyncio.wait_for raised TimeoutError (the process is killed).
TerminalTimedOut ==
  BaseSkillResult(FALSE, PyNone, PyStr(TimeoutText))

\* _run_command when create_subprocess_shell raised e.
TerminalSpawnFailed(e) ==
  BaseSkillResult(FALSE, PyNone, PyStr(e))

\* ----------------------------------------------- cognitive/planner.py, pure

\* main.py Jarvis._init_skills: the registry, in registration order.
skills == <<"system_control", "file_manager", "web_browser", "terminal">>

IsRegistered(name) == \E k \in 1..Len(skills) : skills[k] = name

PyList(v) == [cls |-> "list", v |-> v]

\* base_skill.create_tool_schema; "required or []" makes None the empty list.
create_tool_schema(name, description, parameters, required) ==
  [type |-> "function",
   function |-> [name |-> name,
                 description |-> description,
                 parameters |-> [type |-> "object",
                                 properties |-> parameters,
                                 required |-> IF required \in {PyNone, PyList(<<>>)}
                                              THEN PyList(<<>>) ELSE required]]]

\* What a registered object has for get_schema: no such attribute, a method
\* returning None, or a method returning create_tool_schema(...) of its
\* arguments.
NoAttribute == [cls |-> "no attribute"]

SchemaCall(name, description, parameters, required) ==
  [cls |-> "create_tool_schema", name |-> name, description |-> description,
   parameters |-> parameters, required |-> required]

\* TerminalSkill.get_schema
TerminalGetSchema ==
  SchemaCall("terminal", <<"terminal description">>,
             [cls |-> "dict", keys |-> {"action", "command", "cwd", "timeout"}],
             PyList(<<"action", "command">>))

\* WebBrowserSkill.get_schema
WebBrowserGetSchema ==
  SchemaCall("web_browser", <<"web_browser description">>,
             [cls |-> "dict", keys |-> {"action", "query", "url", "city", "max_results"}],
             PyList(<<"action">>))

\* get_schema of the skills whose classes are not part of the sources at hand:
\* a descriptor that names no required parameter.
OtherGetSchema(name) ==
  SchemaCall(name, <<name, " description">>, [cls |-> "dict", keys |-> {"action"}], PyNone)

GetSchemaOf(name) ==
  CASE name = "terminal" -> TerminalGetSchema
    [] name = "web_browser" -> WebBrowserGetSchema
    [] OTHER -> OtherGetSchema(name)

\* The skills dict Jarvis._init_skills hands to the planner.
JarvisSkills ==
  [k \in 1..Len(skills) |-> [name |-> skills[k], get_schema |-> GetSchemaOf(skills[k])]]

\* skill.get_schema() of a registry entry that has the method
CallGetSchema(entry) ==
  IF entry.get_schema.cls = "create_tool_schema"
  THEN create_tool_schema(entry.get_schema.name, entry.get_schema.description,
                          entry.get_schema.parameters, entry.get_schema.required)
  ELSE entry.get_schema

\* A mutant of _get_tools_schema: the descriptors in reverse order.
_get_tools_schema_reversed(reg) ==
  LET RECURSIVE Collect(_)
      Collect(k) ==
        IF k > Len(reg) THEN <<>>
        ELSE Collect(k + 1)
               \o (IF reg[k].get_schema # NoAttribute /\ CallGetSchema(reg[k]) # PyNone
                   THEN <<CallGetSchema(reg[k])>> ELSE <<>>)
  IN  Collect(1)

\* ReActPlanner._get_tools_schema over self.skills.items()
_get_tools_schema(reg) ==
  LET RECURSIVE Collect(_)
      Collect(k) ==
        IF k > Len(reg) THEN <<>>
        ELSE (IF reg[k].get_schema # NoAttribute /\ CallGetSchema(reg[k]) # PyNone
              THEN <<CallGetSchema(reg[k])>> ELSE <<>>)
               \o Collect(k + 1)
  IN  Collect(1)

\* plan_and_execute line 153: tools=tools if tools else None
ToolsArgument(tools_list) ==
  IF tools_list = <<>> THEN PyNone ELSE PyList(tools_list)

\* A mutant of LoopCondition: the bound tested off by one.
LoopCondition_inclusive(it) == it <= MAX_ITERATIONS

\* while iteration < self.MAX_ITERATIONS
LoopCondition(it) == it < MAX_ITERATIONS

\* A mutant of CapReached: the cap tested strictly.
CapReached_strict(it) == it > MAX_ITERATIONS

\* if iteration >= self.MAX_ITERATIONS (after the loop)
CapReached(it) == it >= MAX_ITERATIONS

\* _execute_tool_calls: name not in self.skills
UnknownSkillResult(name) ==
  [success |-> FALSE, error |-> PyStr(<<UnknownSkillPrefix, name>>)]

\* _execute_tool_calls: the approval callback answered False
DeniedResult ==
  [success |-> FALSE, error |-> PyStr(UserDeniedText)]

\* _execute_tool_calls: except Exception as e
ExceptionResult(e) ==
  [success |-> FALSE, error |-> PyStr(e)]

\* _execute_tool_calls: the dict built from what execute returned. The class
\* tested is cognitive.planner.SkillResult, not the skills' own SkillResult.
WrapResult(result) ==
  IF result.cls = PlannerSkillResultCls
  THEN [success |-> result.success, output |-> result.output, error |-> result.error]
  ELSE [success |-> TRUE, output |-> result]

\* json.dumps(result, ensure_ascii=False) succeeds
ResultSerializable(result) ==
  /\ "output" \in DOMAIN result => JsonSerializable(result.output)
  /\ "error" \in DOMAIN result => JsonSerializable(result.error)

\* json.dumps(v): the text that encodes v
JsonDumps(v) == [json |-> v]

\* plan_and_execute: the assistant message appended for a tool-call response
AssistantMessage(resp) ==
  [role |-> "assistant",
   content |-> resp.content,
   tool_calls |-> [k \in 1..Len(resp.tool_calls) |->
                     [id |-> resp.tool_calls[k].id,
                      type |-> "function",
                      function |-> [name |-> resp.tool_calls[k].name,
                                    arguments |-> JsonDumps(resp.tool_calls[k].arguments)]]]]

\* plan_and_execute: the tool message appended for one (tc, result) pair
ToolMessage(tc, result) ==
  [role |-> "tool", tool_call_id |-> tc.id, content |-> JsonDumps(result)]

\* zip(response["tool_calls"], tool_results): the number of pairs
ZipLen(tool_calls, tool_results) ==
  IF Len(tool_calls) <= Len(tool_results) THEN Len(tool_calls) ELSE Len(tool_results)

\* The first pair whose json.dumps raises, or 0.
FirstUnserializable(tool_calls, tool_results) ==
  LET bad == {k \in 1..ZipLen(tool_calls, tool_results) : ~ResultSerializable(tool_results[k])}
  IN  IF bad = {} THEN 0 ELSE CHOOSE k \in bad : \A j \in bad : k <= j

\* A mutant of AppendedMessages: a tool message only for the results that
\* report success.
AppendedMessages_successes_only(msgs, resp, tool_results) ==
  LET RECURSIVE Pick(_)
      Pick(k) ==
        IF k > ZipLen(resp.tool_calls, tool_results) THEN <<>>
        ELSE (IF tool_results[k].success
              THEN <<ToolMessage(resp.tool_calls[k], tool_results[k])>>
              ELSE <<>>) \o Pick(k + 1)
  IN  msgs \o <<AssistantMessage(resp)>> \o Pick(1)

\* A mutant of AppendedMessages: the history before the last exchange is
\* dropped, the system message kept.
AppendedMessages_tail_only(msgs, resp, tool_results) ==
  <<msgs[1], AssistantMessage(resp)>>
    \o [k \in 1..ZipLen(resp.tool_calls, tool_results) |->
          ToolMessage(resp.tool_calls[k], tool_results[k])]

\* plan_and_execute lines 160-182: the messages after the assistant message and
\* the tool messages are appended, up to the pair whose json.dumps raises.
AppendedMessages(msgs, resp, tool_results) ==
  LET bad == FirstUnserializable(resp.tool_calls, tool_results)
      n == IF bad = 0 THEN ZipLen(resp.tool_calls, tool_results) ELSE bad - 1
  IN  msgs \o <<AssistantMessage(resp)>>
           \o [k \in 1..n |-> ToolMessage(resp.tool_calls[k], tool_results[k])]

\* str(e) of the TypeError json.dumps raises
JsonTypeError == <<"Object of type SkillResult is not JSON serializable">>

\* _build_system_prompt(): persona, context summary and skill list, as one text
SystemPrompt == <<"system prompt">>

\* MemoryManager.get_recent_context(): the stored messages, most recent last
get_recent_context(mem) == mem

\* ---------------------------------------------------------------- inputs

Requests == {1, 2}

Instructions == {<<"open notepad">>}

Contents == {<<"All done.">>, <<>>}

ChatErrors == {<<"Connection error.">>}

CmdLs == <<"l", "s", " ", "-", "l", "a">>
CmdMake == <<"m", "a", "k", "e", " ", "a", "l", "l">>
CmdRm == <<"R", "M", " ", "-", "R", "F", " ", "x">>
CmdEcho == <<"e", "c", "h", "o", " ", "f", "o", "r", "m", "a", "t">>
CmdPip == <<"p", "i", "p", " ", "i", "n", "s", "t", "a", "l", "l", " ", "x">>

Commands == {CmdLs, CmdMake, CmdRm, CmdEcho, CmdPip}

TerminalCalls ==
  {[name |-> "terminal", arguments |-> [action |-> a, command |-> c]] :
     a \in {"run_command", "run_safe_command"}, c \in Commands}
  \cup {[name |-> "terminal", arguments |-> [command |-> CmdMake]],
        [name |-> "terminal", arguments |-> [action |-> "sudo", command |-> CmdLs]]}

\* TerminalSkill.needs_confirmation and TerminalSkill.execute, tabulated once
\* over the arguments of the terminal calls above.
TerminalArguments == {tc.arguments : tc \in TerminalCalls}

TerminalAnswers ==
  [arguments \in TerminalArguments |-> TerminalNeedsConfirmation(arguments)]

TerminalOutcomes ==
  [arguments \in TerminalArguments |-> TerminalExecute(arguments)]

UnknownCall == [name |-> "nope", arguments |-> [action |-> "x"]]

WebSearchCall == [name |-> "web_browser", arguments |-> [action |-> "search"]]

\* The calls a batch may hold in any number.
FillerCalls == {UnknownCall, WebSearchCall}

\* The calls a request may hold MaxRichCalls of.
RichCalls ==
  TerminalCalls
  \cup {[name |-> "system_control", arguments |-> [action |-> "open_app"]]}

ToolCallChoices == RichCalls \cup FillerCalls

\* A tool call as LLMBrain.chat returns it; the id is the position in the batch.
WithIds(b) ==
  [k \in 1..Len(b) |-> [id |-> k, name |-> b[k].name, arguments |-> b[k].arguments]]

\* The number of calls of a batch that are RichCalls.
RichCount(b) ==
  Cardinality({k \in 1..Len(b) :
                 [name |-> b[k].name, arguments |-> b[k].arguments] \in RichCalls})

\* The batches of at most MaxBatch calls, by the number of RichCalls they hold.
BatchesByRichCount ==
  LET all == UNION {[1..n -> ToolCallChoices] : n \in 1..MaxBatch}
  IN  [k \in 1..MaxRichCalls |-> {WithIds(b) : b \in {c \in all : RichCount(c) = k}}]

\* The batches that hold between 1 and budget RichCalls.
RichBatches(budget) ==
  UNION {BatchesByRichCount[k] : k \in 1..budget}

TailBatch == WithIds(<<UnknownCall>>)

\* What the approval callback can do.
ConfirmationOutcomes == {"approve", "deny", "raise"}

CallbackError == <<"EOF when reading a line">>

\* What needs_confirmation(arguments) of a registered skill can do.
NeedsConfirmationOutcomes(name, arguments) ==
  CASE name = "terminal" ->
         {IF TerminalAnswers[arguments] THEN "yes" ELSE "no"}
    [] name = "web_browser" ->
         {IF BaseNeedsConfirmation(WebBrowserPermissionLevel) THEN "yes" ELSE "no"}
    [] OTHER -> {"yes", "no", "raise"}

NeedsConfirmationError == <<"needs_confirmation failed">>

HandlerError == <<"handler failed">>

\* What execute(**arguments) of a skill other than the terminal can do.
HandlerOutcomes(name) ==
  CASE name = "web_browser" ->
         {[kind |-> "return", value |-> BaseSkillResult(TRUE, [cls |-> "dict"], PyNone)],
          [kind |-> "return", value |-> BaseSkillResult(FALSE, PyNone, PyStr(HandlerError))]}
    [] OTHER ->
         {[kind |-> "return", value |-> BaseSkillResult(TRUE, PyNone, PyNone)],
          [kind |-> "return", value |-> PlannerSkillResult(TRUE, PyStr(<<"opened">>), PyNone)],
          [kind |-> "return", value |-> PlannerSkillResult(FALSE, PyNone, PyStr(HandlerError))],
          [kind |-> "return", value |-> PyStr(<<"opened">>)],
          [kind |-> "raise", e |-> HandlerError]}

SpawnError == <<"No such file or directory">>

ReturnCodes == {0, 1}

\* ----------------------------------------------------------------- state

VARIABLES
  _confirmation_callback, \* ReActPlanner._confirmation_callback: "None" or "installed"
  memory,                 \* the MemoryManager's messages
  pc,                     \* where each plan_and_execute invocation stands
  user_input,             \* plan_and_execute's argument
  messages,               \* its local messages
  iteration,              \* its local iteration
  final_response,         \* its local final_response
  response,               \* the last value brain.chat returned
  tool_results,           \* _execute_tool_calls' local results
  idx,                    \* the position of _execute_tool_calls' for loop
  cur,                    \* what has happened to the tool call being dispatched
  dispatched,             \* the same for the calls of the batch already dispatched
  chat_calls,             \* the number of brain.chat calls of the invocation
  exit_by,                \* how the while loop was left
  rich_used,              \* the number of arbitrary tool calls received
  registry,               \* ReActPlanner.skills: the entries in registration order
  tools,                  \* plan_and_execute's local tools
  chat_tools              \* the tools argument of the last brain.chat call

vars ==
  <<_confirmation_callback, memory, pc, user_input, messages, iteration,
    final_response, response, tool_results, idx, cur, dispatched, chat_calls, exit_by,
    rich_used, registry, tools, chat_tools>>

NoReturn == [cls |-> "NoReturn"]

\* tc: the tool call; call: its position in the batch; needs: what
\* needs_confirmation answered;
\* prompts: the calls of the approval callback; approved: it answered True;
\* executed: execute was called; spawned, killed: subprocesses created and
\* killed; returned: what execute returned; raised: the exception caught;
\* callback: the value of _confirmation_callback that was called for the prompt.
NoCall ==
  [tc |-> [id |-> 0, name |-> "", arguments |-> [action |-> ""]],
   call |-> 0, needs |-> "not asked", prompts |-> 0, callback |-> "None",
   approved |-> FALSE,
   executed |-> FALSE, spawned |-> 0, killed |-> 0, returned |-> NoReturn,
   raised |-> <<>>]

NoResponse == [content |-> <<>>, tool_calls |-> <<>>]

Init ==
  /\ _confirmation_callback = "None"
  /\ memory = <<>>
  /\ pc = [r \in Requests |-> "idle"]
  /\ user_input = [r \in Requests |-> <<>>]
  /\ messages = [r \in Requests |-> <<>>]
  /\ iteration = [r \in Requests |-> 0]
  /\ final_response = [r \in Requests |-> <<>>]
  /\ response = [r \in Requests |-> NoResponse]
  /\ tool_results = [r \in Requests |-> <<>>]
  /\ idx = [r \in Requests |-> 0]
  /\ cur = [r \in Requests |-> NoCall]
  /\ dispatched = [r \in Requests |-> <<>>]
  /\ chat_calls = [r \in Requests |-> 0]
  /\ exit_by = [r \in Requests |-> "none"]
  /\ rich_used = [r \in Requests |-> 0]
  /\ registry = JarvisSkills
  /\ tools = [r \in Requests |-> <<>>]
  /\ chat_tools = [r \in Requests |-> PyNone]

\* --------------------------------------------------------------- actions

\* The request's tool call being dispatched.
CurrentCall(r) == response[r].tool_calls[idx[r]]

\* What brain.chat can return: plain content, or tool calls. The tool-call
\* responses of a request are either single unknown calls, as many as the loop
\* takes, or batches that hold MaxRichCalls RichCalls in all. Tabulated by
\* whether the response is the first and by the RichCalls already received.
ResponsesBy ==
  [first \in BOOLEAN, used \in 0..MaxRichCalls |->
     {[content |-> c, tool_calls |-> <<>>] : c \in Contents}
     \cup {[content |-> <<>>, tool_calls |-> b] :
             b \in (IF first \/ used > 0 THEN RichBatches(MaxRichCalls - used) ELSE {})
                   \cup (IF used = 0 THEN {TailBatch} ELSE {})}]

\* What brain.chat can return to invocation r.
ChatResponses(r) == ResponsesBy[iteration[r] = 1, rich_used[r]]

\* ReActPlanner.set_confirmation_callback, as Jarvis.__init__ calls it.
set_confirmation_callback ==
  /\ _confirmation_callback = "None"
  /\ \A r \in Requests : pc[r] = "idle"
  /\ _confirmation_callback' = "installed"
  /\ UNCHANGED <<registry, tools, chat_tools, memory, pc, user_input, messages, iteration,
                 final_response, response,
                 tool_results, idx, cur, dispatched, chat_calls, exit_by, rich_used>>

\* plan_and_execute, lines 123-145: up to the while loop.
Start(r) ==
  /\ pc[r] = "idle"
  /\ \E u \in Instructions :
       LET mem == Append(memory, [role |-> "user", content |-> u])
       IN  /\ user_input' = [user_input EXCEPT ![r] = u]
           /\ memory' = mem
           /\ messages' = [messages EXCEPT ![r] =
                             <<[role |-> "system", content |-> SystemPrompt]>>
                               \o get_recent_context(mem)]
  /\ tools' = [tools EXCEPT ![r] = _get_tools_schema(registry)]
  /\ iteration' = [iteration EXCEPT ![r] = 0]
  /\ final_response' = [final_response EXCEPT ![r] = <<>>]
  /\ pc' = [pc EXCEPT ![r] = "loop"]
  /\ UNCHANGED <<registry, chat_tools, _confirmation_callback, response, tool_results, idx,
                 cur, dispatched, chat_calls,
                 exit_by, rich_used>>

\* A mutant of LoopHead: the counter advanced by two.
LoopHead_double_increment(r) ==
  /\ pc[r] = "loop"
  /\ IF LoopCondition(iteration[r])
     THEN /\ iteration' = [iteration EXCEPT ![r] = @ + 2]
          /\ chat_calls' = [chat_calls EXCEPT ![r] = @ + 1]
          /\ chat_tools' = [chat_tools EXCEPT ![r] = ToolsArgument(tools[r])]
          /\ pc' = [pc EXCEPT ![r] = "chat"]
          /\ UNCHANGED exit_by
     ELSE /\ pc' = [pc EXCEPT ![r] = "finish"]
          /\ exit_by' = [exit_by EXCEPT ![r] = "cap"]
          /\ UNCHANGED <<iteration, chat_calls, chat_tools>>
  /\ UNCHANGED <<registry, tools, _confirmation_callback, memory, user_input, messages,
                 final_response,
                 response, tool_results, idx, cur, dispatched, rich_used>>

\* plan_and_execute, lines 147-153: the while test, iteration += 1 and the call
\* of brain.chat.
LoopHead(r) ==
  /\ pc[r] = "loop"
  /\ IF LoopCondition(iteration[r])
     THEN /\ iteration' = [iteration EXCEPT ![r] = @ + 1]
          /\ chat_calls' = [chat_calls EXCEPT ![r] = @ + 1]
          /\ chat_tools' = [chat_tools EXCEPT ![r] = ToolsArgument(tools[r])]
          /\ pc' = [pc EXCEPT ![r] = "chat"]
          /\ UNCHANGED exit_by
     ELSE /\ pc' = [pc EXCEPT ![r] = "finish"]
          /\ exit_by' = [exit_by EXCEPT ![r] = "cap"]
          /\ UNCHANGED <<iteration, chat_calls, chat_tools>>
  /\ UNCHANGED <<registry, tools, _confirmation_callback, memory, user_input, messages,
                 final_response,
                 response, tool_results, idx, cur, dispatched, rich_used>>

\* plan_and_execute, lines 153-158 and 187-190: brain.chat returned.
ChatReturnFrom(r, responses) ==
  /\ pc[r] = "chat"
  /\ \E resp \in responses :
       /\ response' = [response EXCEPT ![r] = resp]
       /\ IF resp.tool_calls # <<>>
          THEN /\ tool_results' = [tool_results EXCEPT ![r] = <<>>]
               /\ idx' = [idx EXCEPT ![r] = 1]
               /\ cur' = [cur EXCEPT ![r] = NoCall]
               /\ dispatched' = [dispatched EXCEPT ![r] = <<>>]
               /\ rich_used' = [rich_used EXCEPT ![r] = @ + RichCount(resp.tool_calls)]
               /\ pc' = [pc EXCEPT ![r] = "dispatch"]
               /\ UNCHANGED <<final_response, exit_by>>
          ELSE /\ final_response' = [final_response EXCEPT ![r] = resp.content]
               /\ exit_by' = [exit_by EXCEPT ![r] = "plain"]
               /\ pc' = [pc EXCEPT ![r] = "finish"]
               /\ UNCHANGED <<tool_results, idx, cur, dispatched, rich_used>>
  /\ UNCHANGED <<registry, tools, chat_tools, _confirmation_callback, memory, user_input,
                 messages, iteration,
                 chat_calls>>

\* brain.chat returned one of the responses of the request's environment.
ChatReturn(r) == ChatReturnFrom(r, ChatResponses(r))

\* plan_and_execute, lines 192-195: brain.chat raised (LLMBrain.chat re-raises).
ChatFail(r) ==
  /\ pc[r] = "chat"
  /\ \E e \in ChatErrors :
       final_response' = [final_response EXCEPT ![r] = <<ApologyPrefix>> \o e]
  /\ exit_by' = [exit_by EXCEPT ![r] = "chat_error"]
  /\ pc' = [pc EXCEPT ![r] = "finish"]
  /\ UNCHANGED <<registry, tools, chat_tools, _confirmation_callback, memory, user_input,
                 messages, iteration,
                 response, tool_results, idx, cur, dispatched, chat_calls, rich_used>>

\* A mutant of Complete: the for loop moves on without appending the entry.
Complete_without_result(r, entry, c) ==
  /\ tool_results' = tool_results
  /\ cur' = [cur EXCEPT ![r] = c]
  /\ dispatched' = [dispatched EXCEPT ![r] = Append(@, c)]
  /\ idx' = [idx EXCEPT ![r] = @ + 1]
  /\ pc' = [pc EXCEPT ![r] = "dispatch"]

\* _execute_tool_calls: results.append(entry) ends the dispatch of the current
\* call, of which c tells what has happened.
Complete(r, entry, c) ==
  /\ tool_results' = [tool_results EXCEPT ![r] = Append(@, entry)]
  /\ cur' = [cur EXCEPT ![r] = c]
  /\ dispatched' = [dispatched EXCEPT ![r] = Append(@, c)]
  /\ idx' = [idx EXCEPT ![r] = @ + 1]
  /\ pc' = [pc EXCEPT ![r] = "dispatch"]

\* _execute_tool_calls, lines 211-241: one pass of the for loop up to its first
\* suspension (the approval callback or execute).
Dispatch(r) ==
  /\ pc[r] = "dispatch"
  /\ idx[r] <= Len(response[r].tool_calls)
  /\ LET tc == CurrentCall(r)
         fresh == [NoCall EXCEPT !.tc = tc, !.call = idx[r]]
     IN  IF ~IsRegistered(tc.name)
         THEN Complete(r, UnknownSkillResult(tc.name), fresh)
         ELSE \E nc \in NeedsConfirmationOutcomes(tc.name, tc.arguments) :
                CASE nc = "raise" ->
                       Complete(r, ExceptionResult(NeedsConfirmationError),
                                [fresh EXCEPT !.needs = nc, !.raised = NeedsConfirmationError])
                  [] nc = "yes" /\ _confirmation_callback # "None" ->
                       /\ cur' = [cur EXCEPT ![r] = [fresh EXCEPT !.needs = nc, !.prompts = 1,
                                                             !.callback = _confirmation_callback]]
                       /\ pc' = [pc EXCEPT ![r] = "confirm"]
                       /\ UNCHANGED <<tool_results, idx, dispatched>>
                  [] OTHER ->
                       /\ cur' = [cur EXCEPT ![r] = [fresh EXCEPT !.needs = nc, !.executed = TRUE]]
                       /\ pc' = [pc EXCEPT ![r] = "exec"]
                       /\ UNCHANGED <<tool_results, idx, dispatched>>
  /\ UNCHANGED <<registry, tools, chat_tools, _confirmation_callback, memory, user_input,
                 messages, iteration,
                 final_response, response, chat_calls, exit_by, rich_used>>

\* _execute_tool_calls, lines 230-241: the approval callback answered.
ConfirmReturn(r) ==
  /\ pc[r] = "confirm"
  /\ \E answer \in ConfirmationOutcomes :
       CASE answer = "approve" ->
              /\ cur' = [cur EXCEPT ![r] = [@ EXCEPT !.approved = TRUE, !.executed = TRUE]]
              /\ pc' = [pc EXCEPT ![r] = "exec"]
              /\ UNCHANGED <<tool_results, idx, dispatched>>
         [] answer = "deny" ->
              Complete(r, DeniedResult, cur[r])
         [] OTHER ->
              Complete(r, ExceptionResult(CallbackError),
                       [cur[r] EXCEPT !.raised = CallbackError])
  /\ UNCHANGED <<registry, tools, chat_tools, _confirmation_callback, memory, user_input,
                 messages, iteration,
                 final_response, response, chat_calls, exit_by, rich_used>>

\* A mutant of Returned: an exception of execute leaves the for loop.
Returned_exception_escapes(r, out, c) ==
  IF out.kind = "raise"
  THEN /\ idx' = [idx EXCEPT ![r] = Len(response[r].tool_calls) + 1]
       /\ cur' = [cur EXCEPT ![r] = [c EXCEPT !.raised = out.e]]
       /\ pc' = [pc EXCEPT ![r] = "dispatch"]
       /\ UNCHANGED <<tool_results, dispatched>>
  ELSE Complete(r, WrapResult(out.value), [c EXCEPT !.returned = out.value])

\* _execute_tool_calls, lines 241-260: what execute returned or raised becomes
\* the call's entry in results.
Returned(r, out, c) ==
  IF out.kind = "raise"
  THEN Complete(r, ExceptionResult(out.e), [c EXCEPT !.raised = out.e])
  ELSE Complete(r, WrapResult(out.value), [c EXCEPT !.returned = out.value])

\* TerminalSkill.execute up to the spawn of the subprocess.
ExecTerminal(r) ==
  /\ pc[r] = "exec"
  /\ CurrentCall(r).name = "terminal"
  /\ LET out == TerminalOutcomes[CurrentCall(r).arguments]
     IN  IF out.kind = "spawn"
         THEN \E spawned \in BOOLEAN :
                IF spawned
                THEN /\ cur' = [cur EXCEPT ![r] = [@ EXCEPT !.spawned = @ + 1]]
                     /\ pc' = [pc EXCEPT ![r] = "proc"]
                     /\ UNCHANGED <<tool_results, idx, dispatched>>
                ELSE Returned(r, [kind |-> "return",
                                  value |-> TerminalSpawnFailed(SpawnError)], cur[r])
         ELSE Returned(r, out, cur[r])
  /\ UNCHANGED <<registry, tools, chat_tools, _confirmation_callback, memory, user_input,
                 messages, iteration,
                 final_response, response, chat_calls, exit_by, rich_used>>

\* TerminalSkill._run_command, lines 122-161: the subprocess exited in time.
ProcExit(r) ==
  /\ pc[r] = "proc"
  /\ \E rc \in ReturnCodes :
       Returned(r, [kind |-> "return", value |-> TerminalExited(rc)], cur[r])
  /\ UNCHANGED <<registry, tools, chat_tools, _confirmation_callback, memory, user_input,
                 messages, iteration,
                 final_response, response, chat_calls, exit_by, rich_used>>

\* A mutant of ProcTimeout: the timeout is reported, the process is not killed.
ProcTimeout_no_kill(r) ==
  /\ pc[r] = "proc"
  /\ Returned(r, [kind |-> "return", value |-> TerminalTimedOut], cur[r])
  /\ UNCHANGED <<registry, tools, chat_tools, _confirmation_callback, memory, user_input,
                 messages, iteration,
                 final_response, response, chat_calls, exit_by, rich_used>>

\* TerminalSkill._run_command, lines 127-133: wait_for timed out, process.kill().
ProcTimeout(r) ==
  /\ pc[r] = "proc"
  /\ Returned(r, [kind |-> "return", value |-> TerminalTimedOut],
              [cur[r] EXCEPT !.killed = @ + 1])
  /\ UNCHANGED <<registry, tools, chat_tools, _confirmation_callback, memory, user_input,
                 messages, iteration,
                 final_response, response, chat_calls, exit_by, rich_used>>

\* execute of a skill other than the terminal returned or raised.
ExecReturn(r) ==
  /\ pc[r] = "exec"
  /\ CurrentCall(r).name # "terminal"
  /\ \E out \in HandlerOutcomes(CurrentCall(r).name) : Returned(r, out, cur[r])
  /\ UNCHANGED <<registry, tools, chat_tools, _confirmation_callback, memory, user_input,
                 messages, iteration,
                 final_response, response, chat_calls, exit_by, rich_used>>

\* A mutant of AppendResults: the messages are appended to one list that every
\* started invocation shares.
AppendResults_shared_list(r) ==
  /\ pc[r] = "dispatch"
  /\ idx[r] > Len(response[r].tool_calls)
  /\ messages' = [q \in Requests |->
                    IF pc[q] \in {"idle", "done"} THEN messages[q]
                    ELSE AppendedMessages(messages[q], response[r], tool_results[r])]
  /\ IF FirstUnserializable(response[r].tool_calls, tool_results[r]) = 0
     THEN /\ pc' = [pc EXCEPT ![r] = "loop"]
          /\ UNCHANGED <<final_response, exit_by>>
     ELSE /\ final_response' = [final_response EXCEPT ![r] = <<ApologyPrefix>> \o JsonTypeError]
          /\ exit_by' = [exit_by EXCEPT ![r] = "append_error"]
          /\ pc' = [pc EXCEPT ![r] = "finish"]
  /\ UNCHANGED <<registry, tools, chat_tools, _confirmation_callback, memory, user_input,
                 iteration, response, tool_results, idx, cur, dispatched, chat_calls,
                 rich_used>>

\* plan_and_execute, lines 158-185 and 192-195: _execute_tool_calls returned;
\* the assistant message and the tool messages are appended.
AppendResults(r) ==
  /\ pc[r] = "dispatch"
  /\ idx[r] > Len(response[r].tool_calls)
  /\ messages' = [messages EXCEPT ![r] = AppendedMessages(@, response[r], tool_results[r])]
  /\ IF FirstUnserializable(response[r].tool_calls, tool_results[r]) = 0
     THEN /\ pc' = [pc EXCEPT ![r] = "loop"]
          /\ UNCHANGED <<final_response, exit_by>>
     ELSE /\ final_response' = [final_response EXCEPT ![r] = <<ApologyPrefix>> \o JsonTypeError]
          /\ exit_by' = [exit_by EXCEPT ![r] = "append_error"]
          /\ pc' = [pc EXCEPT ![r] = "finish"]
  /\ UNCHANGED <<registry, tools, chat_tools, _confirmation_callback, memory, user_input,
                 iteration, response,
                 tool_results, idx, cur, dispatched, chat_calls, rich_used>>

\* A mutant of Finish: the reply is saved to memory before the cap test.
Finish_saves_before_cap(r) ==
  /\ pc[r] = "finish"
  /\ LET final == IF CapReached(iteration[r]) THEN TooComplexText ELSE final_response[r]
     IN  /\ final_response' = [final_response EXCEPT ![r] = final]
         /\ memory' = Append(memory, [role |-> "assistant", content |-> final_response[r]])
  /\ pc' = [pc EXCEPT ![r] = "done"]
  /\ UNCHANGED <<registry, tools, chat_tools, _confirmation_callback, user_input, messages,
                 iteration, response,
                 tool_results, idx, cur, dispatched, chat_calls, exit_by, rich_used>>

\* plan_and_execute, lines 197-205: after the loop.
Finish(r) ==
  /\ pc[r] = "finish"
  /\ LET final == IF CapReached(iteration[r]) THEN TooComplexText ELSE final_response[r]
     IN  /\ final_response' = [final_response EXCEPT ![r] = final]
         /\ memory' = Append(memory, [role |-> "assistant", content |-> final])
  /\ pc' = [pc EXCEPT ![r] = "done"]
  /\ UNCHANGED <<registry, tools, chat_tools, _confirmation_callback, user_input, messages,
                 iteration, response,
                 tool_results, idx, cur, dispatched, chat_calls, exit_by, rich_used>>

Step(r) ==
  \/ Start(r)
  \/ LoopHead(r)
  \/ ChatReturn(r)
  \/ ChatFail(r)
  \/ Dispatch(r)
  \/ ConfirmReturn(r)
  \/ ExecTerminal(r)
  \/ ProcExit(r)
  \/ ProcTimeout(r)
  \/ ExecReturn(r)
  \/ AppendResults(r)
  \/ Finish(r)

\* One request on the planner.
SpecRequests == {1}

Next ==
  \/ set_confirmation_callback
  \/ \E r \in SpecRequests : Step(r)

Spec == Init /\ [][Next]_vars

\* The steps of a plan_and_execute invocation that is under way: the coroutine
\* runs on, or something it awaits (brain.chat, the approval callback, execute,
\* the subprocess) returns or raises.
Progress(r) ==
  \/ LoopHead(r)
  \/ ChatReturn(r)
  \/ ChatFail(r)
  \/ Dispatch(r)
  \/ ConfirmReturn(r)
  \/ ExecTerminal(r)
  \/ ProcExit(r)
  \/ ProcTimeout(r)
  \/ ExecReturn(r)
  \/ AppendResults(r)
  \/ Finish(r)

\* The steps of an invocation other than an answer of the approval callback.
ProgressUnanswered(r) ==
  \/ LoopHead(r)
  \/ ChatReturn(r)
  \/ ChatFail(r)
  \/ Dispatch(r)
  \/ ExecTerminal(r)
  \/ ProcExit(r)
  \/ ProcTimeout(r)
  \/ ExecReturn(r)
  \/ AppendResults(r)
  \/ Finish(r)

\* One request whose approval callback (Jarvis._handle_confirmation awaiting
\* input()) may never answer; everything else awaited returns or raises.
UnansweredSpec ==
  Init /\ [][Next]_vars /\ \A r \in SpecRequests : WF_vars(ProgressUnanswered(r))

\* The steps of an invocation other than the exit of a spawned subprocess.
ProgressUnlessExit(r) ==
  \/ LoopHead(r)
  \/ ChatReturn(r)
  \/ ChatFail(r)
  \/ Dispatch(r)
  \/ ConfirmReturn(r)
  \/ ExecTerminal(r)
  \/ ProcTimeout(r)
  \/ ExecReturn(r)
  \/ AppendResults(r)
  \/ Finish(r)

\* One request whose subprocesses may never exit; everything else awaited
\* returns or raises, and the timer of asyncio.wait_for fires.
HangingSpec ==
  Init /\ [][Next]_vars /\ \A r \in SpecRequests : WF_vars(ProgressUnlessExit(r))

\* The task running plan_and_execute is cancelled (the host aborts the request)
\* while the coroutine is suspended in an await: on brain.chat, on the approval
\* callback, on skill.execute, or on process.communicate() under asyncio.wait_for.
\* CancelledError is a BaseException: neither "except asyncio.TimeoutError" and
\* "except Exception" of _run_command, nor "except Exception" of
\* _execute_tool_calls and plan_and_execute catch it, and no finally clause
\* runs. It leaves plan_and_execute with nothing else changed.
Cancel(r) ==
  /\ pc[r] \in {"chat", "confirm", "exec", "proc"}
  /\ pc' = [pc EXCEPT ![r] = "cancelled"]
  /\ UNCHANGED <<registry, tools, chat_tools, _confirmation_callback, memory, user_input,
                 messages, iteration,
                 final_response, response, tool_results, idx, cur, dispatched,
                 chat_calls, exit_by, rich_used>>

CancelNext ==
  \/ Next
  \/ \E r \in SpecRequests : Cancel(r)

\* One request that the host may cancel.
CancelSpec == Init /\ [][CancelNext]_vars

\* The members of a set of integers in ascending order.
RECURSIVE Ascending(_)
Ascending(S) ==
  IF S = {} THEN <<>>
  ELSE LET m == CHOOSE x \in S : \A y \in S : x <= y
       IN  <<m>> \o Ascending(S \ {m})

\* The skills dicts a planner can be constructed with, for _get_tools_schema:
\* any of Jarvis' skills, in their order, each an object without get_schema,
\* with a get_schema that returns None, or with its descriptor.
SchemaRegistries ==
  UNION {{[k \in 1..Len(Ascending(S)) |->
             LET name == skills[Ascending(S)[k]]
             IN  [name |-> name,
                  get_schema |-> CASE f[Ascending(S)[k]] = "no attribute" -> NoAttribute
                                   [] f[Ascending(S)[k]] = "None" -> PyNone
                                   [] OTHER -> GetSchemaOf(name)]] :
            f \in [S -> {"no attribute", "None", "descriptor"}]} :
         S \in SUBSET (1..Len(skills))}

\* A planner constructed with one of those skills dicts.
SchemaInit ==
  /\ _confirmation_callback = "None"
  /\ memory = <<>>
  /\ pc = [r \in Requests |-> "idle"]
  /\ user_input = [r \in Requests |-> <<>>]
  /\ messages = [r \in Requests |-> <<>>]
  /\ iteration = [r \in Requests |-> 0]
  /\ final_response = [r \in Requests |-> <<>>]
  /\ response = [r \in Requests |-> NoResponse]
  /\ tool_results = [r \in Requests |-> <<>>]
  /\ idx = [r \in Requests |-> 0]
  /\ cur = [r \in Requests |-> NoCall]
  /\ dispatched = [r \in Requests |-> <<>>]
  /\ chat_calls = [r \in Requests |-> 0]
  /\ exit_by = [r \in Requests |-> "none"]
  /\ rich_used = [r \in Requests |-> 0]
  /\ registry \in SchemaRegistries
  /\ tools = [r \in Requests |-> <<>>]
  /\ chat_tools = [r \in Requests |-> PyNone]

\* brain.chat answers with plain content or with a call of a skill that is in
\* none of the skills dicts.
SchemaResponses ==
  {[content |-> c, tool_calls |-> <<>>] : c \in Contents}
  \cup {[content |-> <<>>, tool_calls |-> TailBatch]}

SchemaNext ==
  \E r \in SpecRequests :
    \/ Start(r)
    \/ LoopHead(r)
    \/ ChatReturnFrom(r, SchemaResponses)
    \/ ChatFail(r)
    \/ Dispatch(r)
    \/ AppendResults(r)
    \/ Finish(r)

\* One request on a planner constructed with any of the skills dicts.
SchemaSpec == SchemaInit /\ [][SchemaNext]_vars

\* What brain.chat can return when it may also ask for arbitrary calls on the
\* last iteration the cap allows.
CapResponses(r) ==
  ChatResponses(r)
  \cup (IF iteration[r] = MAX_ITERATIONS /\ rich_used[r] = 0
        THEN {[content |-> <<>>, tool_calls |-> b] : b \in RichBatches(MaxRichCalls)}
        ELSE {})

CapStep(r) ==
  \/ Start(r)
  \/ LoopHead(r)
  \/ ChatReturnFrom(r, CapResponses(r))
  \/ ChatFail(r)
  \/ Dispatch(r)
  \/ ConfirmReturn(r)
  \/ ExecTerminal(r)
  \/ ProcExit(r)
  \/ ProcTimeout(r)
  \/ ExecReturn(r)
  \/ AppendResults(r)
  \/ Finish(r)

CapNext ==
  \/ set_confirmation_callback
  \/ \E r \in SpecRequests : CapStep(r)

\* One request whose last response before the cap may hold arbitrary calls.
CapSpec == Init /\ [][CapNext]_vars

\* The approval callbacks a host with two requests in flight has, one for
\* each request's response channel.
CallbackOf == [r \in Requests |-> IF r = 1 THEN "callback_1" ELSE "callback_2"]

\* ReActPlanner.set_confirmation_callback called for request r, before its
\* plan_and_execute is started.
InstallCallback(r) ==
  /\ pc[r] = "idle"
  /\ _confirmation_callback # CallbackOf[r]
  /\ _confirmation_callback' = CallbackOf[r]
  /\ UNCHANGED <<memory, pc, user_input, messages, iteration, final_response, response,
                 tool_results, idx, cur, dispatched, chat_calls, exit_by, rich_used,
                 registry, tools, chat_tools>>

\* WebBrowserSkill._search runs list(ddgs.text(...)) and _open_url runs
\* open_url_in_browser(url) inside the coroutine, without await and without a
\* worker thread: from the call of execute to its return the event loop runs
\* nothing else.
Blocking(p) ==
  /\ pc[p] = "exec"
  /\ CurrentCall(p).name = "web_browser"
  /\ CurrentCall(p).arguments.action \in {"search", "open_url"}

\* The event loop can run the coroutine of request r.
Free(r) == ~\E p \in Requests \ {r} : Blocking(p)

\* What brain.chat returns to either of two requests: plain content, or on the
\* first iteration one call, of system_control or a web search.
ConcurrentResponses(r) ==
  {[content |-> c, tool_calls |-> <<>>] : c \in Contents}
  \cup (IF iteration[r] = 1
        THEN {[content |-> <<>>, tool_calls |-> WithIds(<<c>>)] :
                c \in {[name |-> "system_control", arguments |-> [action |-> "open_app"]],
                       WebSearchCall}}
        ELSE {})

\* The steps of request r once it is started, as the event loop runs them.
ConcurrentStep(r) ==
  \/ Free(r) /\ LoopHead(r)
  \/ Free(r) /\ ChatReturnFrom(r, ConcurrentResponses(r))
  \/ Free(r) /\ ChatFail(r)
  \/ Free(r) /\ Dispatch(r)
  \/ Free(r) /\ ConfirmReturn(r)
  \/ Free(r) /\ ExecReturn(r)
  \/ Free(r) /\ AppendResults(r)
  \/ Free(r) /\ Finish(r)

ConcurrentNext ==
  \E r \in Requests :
    \/ Free(r) /\ InstallCallback(r)
    \/ Free(r) /\ _confirmation_callback = CallbackOf[r] /\ Start(r)
    \/ ConcurrentStep(r)

\* Two requests on one planner and one event loop; the host installs the
\* callback of a request before it starts the request.
ConcurrentSpec == Init /\ [][ConcurrentNext]_vars

\* One request, every awaited call of which returns or raises: the event loop
\* resumes the coroutine whenever what it awaits has completed.
LiveSpec == Init /\ [][Next]_vars /\ \A r \in SpecRequests : WF_vars(Progress(r))

\* ---------------------------------------------------------------- claims

\* What has happened to the tool calls of the current batch of invocation r.
CallRecords(r) ==
  {dispatched[r][k] : k \in 1..Len(dispatched[r])} \cup {cur[r]}

\* The loop was left although brain.chat neither failed nor returned plain
\* content, and the cap was not reached.
EndedByBatch(r) ==
  pc[r] \in {"finish", "done"} /\ exit_by[r] \notin {"plain", "chat_error", "cap"}

\* C1: in every request, whatever the reasoning responses, brain.chat is called
\* at most MAX_ITERATIONS times.
C1_ChatCallsBounded ==
  \A r \in Requests : chat_calls[r] <= MAX_ITERATIONS

C1_Witness ==
  \E r \in Requests : pc[r] = "done" /\ chat_calls[r] = MAX_ITERATIONS

HasToolCalls(m) ==
  m.role = "assistant" /\ "tool_calls" \in DOMAIN m

\* Every assistant message with tool calls c1..cN is directly followed by
\* exactly N tool messages with the ids of c1..cN in that order, and every tool
\* message belongs to such a group.
WellStitched(msgs) ==
  /\ \A i \in 1..Len(msgs) :
       HasToolCalls(msgs[i]) =>
         LET n == Len(msgs[i].tool_calls)
         IN  /\ i + n <= Len(msgs)
             /\ \A k \in 1..n :
                  /\ msgs[i + k].role = "tool"
                  /\ msgs[i + k].tool_call_id = msgs[i].tool_calls[k].id
             /\ i + n + 1 <= Len(msgs) => msgs[i + n + 1].role # "tool"
  /\ \A j \in 1..Len(msgs) :
       msgs[j].role = "tool" =>
         \E i \in 1..(j - 1) :
           HasToolCalls(msgs[i]) /\ j <= i + Len(msgs[i].tool_calls)

\* C2: whenever brain.chat is being called, the messages passed are well
\* stitched.
C2_StitchedAtEveryChat ==
  \A r \in Requests : pc[r] = "chat" => WellStitched(messages[r])

C2_Witness ==
  \E r \in Requests :
    /\ pc[r] = "chat"
    /\ \E i \in 1..Len(messages[r]) :
         HasToolCalls(messages[r][i]) /\ Len(messages[r][i].tool_calls) = 2

\* The command contains a deny-list entry, compared case-insensitively.
DenyListed(command) ==
  \E k \in 1..Len(forbidden_commands) :
    Contains(lower(command), lower(forbidden_commands[k]))

\* The commands of the model that contain a deny-list entry, and those the
\* allow-list classifies read-only.
DenyListedCommands == {c \in Commands : DenyListed(c)}

ReadonlyCommands == {c \in Commands : _is_command_readonly(c)}

ForbiddenTerminalCall(tc) ==
  tc.name = "terminal" /\ GetCommand(tc.arguments) \in DenyListedCommands

\* C3: a terminal call whose command contains a deny-list entry never spawns a
\* subprocess, whether the callback approved, denied or is not installed and
\* whichever action is named; what the call yields (the SkillResult execute
\* returns, or the planner's entry when execute did not return) has
\* success = False.
C3_ForbiddenNeverSpawns ==
  \A r \in Requests :
    /\ \A d \in CallRecords(r) :
         ForbiddenTerminalCall(d.tc) => d.spawned = 0
    /\ \A k \in 1..Len(dispatched[r]) :
         ForbiddenTerminalCall(dispatched[r][k].tc) =>
           IF dispatched[r][k].returned # NoReturn
           THEN dispatched[r][k].returned.success = FALSE
           ELSE tool_results[r][k].success = FALSE

C3_Witness ==
  \E r \in Requests : \E k \in 1..Len(dispatched[r]) :
    LET d == dispatched[r][k]
    IN  /\ ForbiddenTerminalCall(d.tc)
        /\ d.approved /\ d.executed
        /\ d.returned # NoReturn /\ d.returned.success = FALSE

C5_PlainContentReturned ==
  \A r \in Requests :
    (pc[r] = "done" /\ exit_by[r] = "plain") => final_response[r] = response[r].content

\* C6: a request ends only by a plain-content response, a failure of
\* brain.chat or the iteration cap; no outcome of a skill call ends it.
C6_OnlyThreeEndings ==
  \A r \in Requests : ~EndedByBatch(r)

\* The approval callback answered False for the call d tells of.
Denied(d) ==
  d.prompts = 1 /\ ~d.approved /\ d.raised = <<>>

\* C7: when the approval callback denies a call, execute is not called for it,
\* its result is success = False with the fixed reason, the rest of the batch is
\* dispatched, and the loop goes on to the next brain.chat call (unless the cap
\* is reached) with that failure in the messages.
C7_DenialFedBack ==
  \A r \in Requests : \A k \in 1..Len(dispatched[r]) :
    Denied(dispatched[r][k]) =>
      /\ ~dispatched[r][k].executed
      /\ tool_results[r][k] = DeniedResult
      /\ ~EndedByBatch(r)
      /\ pc[r] = "chat" =>
           \E j \in 1..Len(messages[r]) :
             /\ messages[r][j].role = "tool"
             /\ messages[r][j].content = JsonDumps(DeniedResult)

\* C8: a call that names an unregistered skill yields success = False with the
\* name in the error, without the approval callback or any handler being
\* called, and the loop goes on to the next brain.chat call (unless the cap is
\* reached).
C8_UnknownSkillFedBack ==
  \A r \in Requests : \A k \in 1..Len(dispatched[r]) :
    ~IsRegistered(dispatched[r][k].tc.name) =>
      /\ tool_results[r][k].success = FALSE
      /\ \E j \in 1..Len(tool_results[r][k].error.v) :
           tool_results[r][k].error.v[j] = dispatched[r][k].tc.name
      /\ dispatched[r][k].prompts = 0 /\ ~dispatched[r][k].executed
      /\ ~EndedByBatch(r)

\* C9: an exception raised while one call is dispatched (by needs_confirmation,
\* by the approval callback or by execute) becomes that call's result, success
\* = False with the exception's message; _execute_tool_calls returns one result
\* per call, the i-th for the i-th call, and no later call is skipped.
C9_ExceptionIsolated ==
  \A r \in Requests :
    /\ Len(tool_results[r]) = Len(dispatched[r])
    /\ \A k \in 1..Len(dispatched[r]) :
         /\ dispatched[r][k].call = k
         /\ dispatched[r][k].raised # <<>> =>
              tool_results[r][k] = [success |-> FALSE, error |-> PyStr(dispatched[r][k].raised)]
    /\ pc[r] \in {"dispatch", "confirm", "exec", "proc"} =>
         /\ Len(tool_results[r]) = idx[r] - 1
         /\ \A k \in 1..Len(dispatched[r]) : dispatched[r][k].tc = response[r].tool_calls[k]
    /\ pc[r] = "loop" /\ iteration[r] > 0 =>
         Len(tool_results[r]) = Len(response[r].tool_calls)

C9_Witness ==
  \E r \in Requests :
    /\ Len(dispatched[r]) = 2
    /\ dispatched[r][1].raised # <<>>
    /\ dispatched[r][2].executed

\* C10: when brain.chat fails, on any iteration, the request makes no further
\* brain.chat call and the text returned is the apology.
C10_ChatFailureApology ==
  \A r \in Requests :
    (pc[r] = "done" /\ exit_by[r] = "chat_error") =>
      /\ Len(final_response[r]) >= 1
      /\ final_response[r][1] = ApologyPrefix

\* brain.chat has returned tool calls on MAX_ITERATIONS iterations of request r
\* (the loop ends at the first response of any other kind).
ToolCallsOnEveryIteration(r) ==
  /\ chat_calls[r] = MAX_ITERATIONS
  /\ pc[r] \in {"finish", "done"}
  /\ exit_by[r] \notin {"plain", "chat_error"}

\* C11: when brain.chat returns tool calls on each of MAX_ITERATIONS
\* iterations, the request has made exactly MAX_ITERATIONS brain.chat calls,
\* makes no further one, and returns the fixed "task too complex" text; the
\* while test ends the loop only after exactly MAX_ITERATIONS calls.
C11_CapEndsWithTooComplex ==
  \A r \in Requests :
    /\ exit_by[r] = "cap" => (iteration[r] = MAX_ITERATIONS /\ chat_calls[r] = MAX_ITERATIONS)
    /\ ToolCallsOnEveryIteration(r) => iteration[r] = MAX_ITERATIONS
    /\ (ToolCallsOnEveryIteration(r) /\ pc[r] = "done") =>
         final_response[r] = TooComplexText

C11_Witness ==
  \E r \in Requests :
    /\ pc[r] = "done" /\ exit_by[r] = "cap"
    /\ response[r].tool_calls # <<>>
    /\ final_response[r] = TooComplexText

\* C12: the iteration counter of a request starts at 0, grows by exactly 1 with
\* each brain.chat call and changes at no other step; and, every awaited call
\* returning or raising, a request that has entered the loop ends.
C12_IterationMonotonicAndTerminates ==
  /\ \A r \in Requests : iteration[r] = 0 /\ chat_calls[r] = 0
  /\ [][\A r \in Requests :
          IF chat_calls'[r] # chat_calls[r]
          THEN chat_calls'[r] = chat_calls[r] + 1 /\ iteration'[r] = iteration[r] + 1
          ELSE iteration'[r] = iteration[r]]_vars
  /\ \A r \in SpecRequests : (pc[r] = "loop") ~> (pc[r] = "done")

C12_Witness ==
  \E r \in Requests :
    /\ pc[r] = "done" /\ exit_by[r] = "plain"
    /\ iteration[r] = 2 /\ chat_calls[r] = 2

\* C13: for a terminal call whose command contains a deny-list entry the
\* approval callback is never called, no subprocess is spawned, and what the
\* call yields is a failure.
C13_ForbiddenNoPromptNoSpawn ==
  \A r \in Requests :
    /\ \A d \in CallRecords(r) :
         ForbiddenTerminalCall(d.tc) => (d.prompts = 0 /\ d.spawned = 0)
    /\ \A k \in 1..Len(dispatched[r]) :
         (ForbiddenTerminalCall(dispatched[r][k].tc)
            /\ dispatched[r][k].returned # NoReturn) =>
           dispatched[r][k].returned.success = FALSE

\* The allow-list classifies the call's command read-only, and the command
\* contains a deny-list entry.
ReadonlyButDenyListed(tc) ==
  /\ tc.name = "terminal"
  /\ GetCommand(tc.arguments) \in ReadonlyCommands
  /\ GetCommand(tc.arguments) \in DenyListedCommands

\* C14: a terminal call whose command is read-only by the allow-list and
\* contains a deny-list entry is blocked: the approval callback is not called
\* for it, no subprocess is spawned, and what the call yields (the SkillResult
\* execute returns, or the planner's entry when execute raised) is a failure.
C14_ReadonlyDenyListedBlocked ==
  \A r \in Requests :
    /\ \A d \in CallRecords(r) :
         ReadonlyButDenyListed(d.tc) =>
           /\ d.needs \in {"not asked", "no"}
           /\ d.prompts = 0
           /\ d.spawned = 0
    /\ \A k \in 1..Len(dispatched[r]) :
         ReadonlyButDenyListed(dispatched[r][k].tc) =>
           IF dispatched[r][k].returned # NoReturn
           THEN dispatched[r][k].returned.success = FALSE
           ELSE tool_results[r][k].success = FALSE

C14_Witness ==
  \E r \in Requests : \E k \in 1..Len(dispatched[r]) :
    LET d == dispatched[r][k]
    IN  /\ _confirmation_callback # "None"
        /\ ReadonlyButDenyListed(d.tc)
        /\ d.tc.arguments.action = "run_safe_command"
        /\ d.prompts = 0 /\ d.executed /\ d.spawned = 0
        /\ d.returned = BaseSkillResult(FALSE, PyNone, PyStr(CommandRejectedText))

\* C15: a call that needs confirmation while no approval callback is installed
\* is treated as denied: execute is not called and the call's result is a
\* failure.
C15_NoCallbackMeansDenied ==
  \A r \in Requests :
    /\ \A d \in CallRecords(r) :
         (d.needs = "yes" /\ _confirmation_callback = "None") => ~d.executed
    /\ \A k \in 1..Len(dispatched[r]) :
         (dispatched[r][k].needs = "yes" /\ _confirmation_callback = "None") =>
           tool_results[r][k].success = FALSE

\* C16: a confirmation request the approval callback never answers is resolved
\* once confirmation_timeout has elapsed: the request leaves the wait for the
\* callback.
C16_UnansweredConfirmationResolved ==
  \A r \in SpecRequests : (pc[r] = "confirm") ~> (pc[r] # "confirm")

\* C17: a request calls memory.add_message exactly twice: ("user", instruction)
\* before any brain.chat call, and ("assistant", final text) after the loop,
\* the final text being the value returned; between the two nothing is written
\* to memory, so no tool call and no tool result ever is.
C17_MemoryWrittenTwice ==
  \A r \in SpecRequests :
    LET user == [role |-> "user", content |-> user_input[r]]
        assistant == [role |-> "assistant", content |-> final_response[r]]
    IN  /\ pc[r] = "idle" => (memory = <<>> /\ chat_calls[r] = 0)
        /\ pc[r] \notin {"idle", "done"} => memory = <<user>>
        /\ pc[r] = "done" => memory = <<user, assistant>>

C17_Witness ==
  \E r \in SpecRequests :
    /\ pc[r] = "done" /\ exit_by[r] = "plain" /\ iteration[r] = MAX_ITERATIONS
    /\ Len(messages[r]) > 2
    /\ Len(memory) = 2
    /\ memory[2] = [role |-> "assistant", content |-> TooComplexText]

\* The first response of request r held one call, to a registered skill whose
\* needs_confirmation answered False, and execute returned a SkillResult of
\* skills/base_skill.py.
OneUngatedCallReturned(r) ==
  /\ iteration[r] = 1
  /\ Len(response[r].tool_calls) = 1
  /\ Len(dispatched[r]) = 1
  /\ dispatched[r][1].needs = "no"
  /\ dispatched[r][1].returned.cls = BaseSkillResultCls

\* C18: when the first response asks for one call to a registered skill that
\* needs no confirmation and the handler returns its SkillResult, the handler
\* ran without a prompt and the loop goes on to a second brain.chat call with
\* the tool result in the messages.
C18_UngatedCallThenSecondChat ==
  \A r \in Requests :
    OneUngatedCallReturned(r) =>
      /\ dispatched[r][1].prompts = 0 /\ dispatched[r][1].executed
      /\ ~EndedByBatch(r)
      /\ pc[r] = "loop" =>
           messages[r][Len(messages[r])] =
             ToolMessage(response[r].tool_calls[1], tool_results[r][1])

\* C19: when execute returns a SkillResult of skills/base_skill.py, the entry
\* recorded for the call carries that result's success, output and error.
C19_SkillResultCarriedOver ==
  \A r \in Requests : \A k \in 1..Len(dispatched[r]) :
    LET result == dispatched[r][k].returned
    IN  result.cls = BaseSkillResultCls =>
          tool_results[r][k] = [success |-> result.success,
                                output |-> result.output,
                                error |-> result.error]

\* What BaseSkill.needs_confirmation answers at each permission level.
BaseAnswers ==
  [level \in PermissionLevel |-> BaseNeedsConfirmation(level)]

LsCall == [name |-> "terminal", arguments |-> [action |-> "run_command", command |-> CmdLs]]

MakeCall == [name |-> "terminal", arguments |-> [action |-> "run_command", command |-> CmdMake]]

\* C20: the default needs_confirmation is (permission_level = CRITICAL); so a
\* call to the READ_ONLY web_browser skill is never gated and never prompts,
\* while the terminal skill, which overrides it, answers per call from the
\* command.
C20_DefaultConfirmationRule ==
  /\ \A level \in PermissionLevel : BaseAnswers[level] <=> (level = "CRITICAL")
  /\ \A r \in Requests : \A d \in CallRecords(r) :
       /\ d.tc.name = "web_browser" => (d.needs \in {"not asked", "no"} /\ d.prompts = 0)
       /\ (d.tc.name = "terminal" /\ d.needs # "not asked") =>
            (d.needs = "yes" <=> TerminalAnswers[d.tc.arguments])
  /\ ~TerminalAnswers[LsCall.arguments]
  /\ TerminalAnswers[MakeCall.arguments]

C20_Witness ==
  \E r \in Requests : \E k \in 1..Len(dispatched[r]) :
    LET d == dispatched[r][k]
    IN  /\ _confirmation_callback # "None"
        /\ d.tc.name = "web_browser"
        /\ d.needs = "no" /\ d.prompts = 0 /\ d.executed
        /\ d.returned # NoReturn

\* The classification C21 states, for the commands of the model: FORBIDDEN when
\* the command contains a deny-list entry, compared case-insensitively; else
\* SAFE when it starts with a whole allow-list entry or its first token is a
\* whole allow-list entry; else CRITICAL.
StatedClass ==
  [c \in Commands |->
     LET command_lower == strip(lower(c))
     IN  IF DenyListed(c) THEN "FORBIDDEN"
         ELSE IF \E k \in 1..Len(safe_commands) :
                   \/ startswith(command_lower, lower(safe_commands[k]))
                   \/ first_word(command_lower) = lower(safe_commands[k])
         THEN "SAFE"
         ELSE "CRITICAL"]

\* C21: the terminal skill treats every command by the class stated: a
\* FORBIDDEN command never spawns a subprocess, a SAFE command needs no
\* confirmation, a CRITICAL command needs confirmation.
C21_ClassifierAsStated ==
  \A r \in Requests : \A d \in CallRecords(r) :
    (d.tc.name = "terminal" /\ d.needs # "not asked") =>
      LET class == StatedClass[GetCommand(d.tc.arguments)]
      IN  /\ class = "FORBIDDEN" => d.spawned = 0
          /\ class = "SAFE" => d.needs = "no"
          /\ class = "CRITICAL" => d.needs = "yes"

\* C22: a call whose subprocess was spawned and did not finish in time has
\* killed that subprocess and returns success = False with the timeout error,
\* and no other call kills or reports a timeout; a request that waits on a
\* subprocess that never exits leaves the wait, the call's dispatch completing.
C22_TimeoutKillsAndReturns ==
  /\ [](\A r \in Requests : \A d \in CallRecords(r) :
          /\ d.killed <= d.spawned
          /\ d.killed = 1 =>
               /\ d.returned # NoReturn
               /\ d.returned.success = FALSE
               /\ d.returned.error = PyStr(TimeoutText)
          /\ d.returned = BaseSkillResult(FALSE, PyNone, PyStr(TimeoutText)) =>
               (d.spawned = 1 /\ d.killed = 1))
  /\ \A r \in SpecRequests :
       (pc[r] = "proc") ~> (pc[r] = "dispatch" /\ cur[r].returned # NoReturn)

C22_Witness ==
  \E r \in Requests : \E k \in 1..Len(dispatched[r]) :
    LET d == dispatched[r][k]
    IN  /\ d.spawned = 1 /\ d.killed = 1
        /\ d.returned.error = PyStr(TimeoutText)
        /\ Len(tool_results[r]) = k

\* C27: the calls of a batch are dispatched one at a time in the order
\* received: a call has at most one prompt and at most one subprocess, it is
\* executed after its prompt was approved when there was a prompt and not at
\* all when the prompt was refused; while call i is waiting (on the callback,
\* on execute, on the subprocess) exactly the results of calls 1..i-1 exist;
\* and brain.chat is called only when every call of the last batch has its
\* result and none is under way.
C27_BatchStrictlySequential ==
  \A r \in Requests :
    /\ \A d \in CallRecords(r) :
         /\ d.prompts <= 1 /\ d.spawned <= 1
         /\ (d.executed /\ d.prompts = 1) => d.approved
         /\ d.spawned = 1 => d.executed
    /\ pc[r] \in {"confirm", "exec", "proc"} =>
         /\ cur[r].call = idx[r]
         /\ cur[r].tc = response[r].tool_calls[idx[r]]
         /\ Len(tool_results[r]) = idx[r] - 1
         /\ Len(dispatched[r]) = idx[r] - 1
    /\ pc[r] = "dispatch" => Len(tool_results[r]) = idx[r] - 1
    /\ pc[r] = "chat" =>
         /\ Len(tool_results[r]) = Len(response[r].tool_calls)
         /\ Len(dispatched[r]) = Len(response[r].tool_calls)
         /\ \A k \in 1..Len(dispatched[r]) : dispatched[r][k].call = k

C27_Witness ==
  \E r \in Requests :
    /\ pc[r] = "chat" /\ iteration[r] = 2
    /\ Len(dispatched[r]) = 2
    /\ dispatched[r][1].prompts = 1 /\ dispatched[r][1].approved
    /\ dispatched[r][1].executed
    /\ dispatched[r][2].call = 2

\* The messages a step appended to the working list of request r.
AppendedPart(old, new) == SubSeq(new, Len(old) + 1, Len(new))

IsPrefix(old, new) ==
  /\ Len(old) <= Len(new)
  /\ \A k \in 1..Len(old) : new[k] = old[k]

\* C28: within one request the working message list is append-only. Before
\* the first response it is the system message followed by the recent history
\* of the memory; every step leaves the old list as a prefix of the new one;
\* the only step that appends is the one after a batch, and what it appends is
\* the response's assistant message followed by tool messages for its calls in
\* order, one for every call whenever a further reasoning call follows.
C28_MessagesAppendOnly ==
  /\ [](\A r \in SpecRequests :
          ((pc[r] = "loop" /\ iteration[r] = 0) \/ (pc[r] = "chat" /\ iteration[r] = 1)) =>
             /\ messages[r][1] = [role |-> "system", content |-> SystemPrompt]
             /\ AppendedPart(<<messages[r][1]>>, messages[r]) = memory
             /\ memory[Len(memory)] = [role |-> "user", content |-> user_input[r]])
  /\ [][\A r \in Requests :
          pc[r] # "idle" =>
            /\ IsPrefix(messages[r], messages'[r])
            /\ messages'[r] # messages[r] =>
                 LET new == AppendedPart(messages[r], messages'[r])
                     calls == response[r].tool_calls
                 IN  /\ pc[r] = "dispatch"
                     /\ Len(new) <= 1 + Len(calls)
                     /\ new[1].role = "assistant"
                     /\ new[1].content = response[r].content
                     /\ Len(new[1].tool_calls) = Len(calls)
                     /\ \A k \in 1..Len(calls) :
                          /\ new[1].tool_calls[k].id = calls[k].id
                          /\ new[1].tool_calls[k].function.name = calls[k].name
                     /\ \A k \in 2..Len(new) :
                          /\ new[k].role = "tool"
                          /\ new[k].tool_call_id = calls[k - 1].id
                          /\ new[k].content = JsonDumps(tool_results[r][k - 1])
                     /\ pc'[r] = "loop" => Len(new) = 1 + Len(calls)]_vars

C28_Witness ==
  \E r \in Requests :
    /\ pc[r] = "chat" /\ chat_calls[r] = 3
    /\ Len(messages[r]) = 1 + Len(memory) + 4
    /\ messages[r][Len(messages[r])].role = "tool"
    /\ messages[r][Len(messages[r]) - 1].role = "assistant"

C23_CancelKillsSubprocess ==
  \A r \in Requests :
    pc[r] = "cancelled" =>
      \A d \in CallRecords(r) :
        (d.spawned = 1 /\ d.returned = NoReturn /\ d.raised = <<>>) => d.killed = 1

\* The registry entries whose get_schema yields a descriptor.
Yielding == {k \in 1..Len(registry) : registry[k].get_schema.cls = "create_tool_schema"}

\* C26: the tools argument of every reasoning call is the list, in
\* registration order, of the descriptors of the registered skills that yield
\* one, each of the shape {type: "function", function: {name, description,
\* parameters: {type: "object", properties, required}}} with required the empty
\* list when the skill gave none; when no skill yields a descriptor the
\* argument is None.
C26_ToolsArgument ==
  \A r \in Requests :
    chat_calls[r] >= 1 =>
      IF Yielding = {}
      THEN chat_tools[r] = PyNone
      ELSE /\ chat_tools[r].cls = "list"
           /\ Len(chat_tools[r].v) = Cardinality(Yielding)
           /\ \A k \in Yielding :
                LET d == chat_tools[r].v[Cardinality({j \in Yielding : j <= k})]
                    given == registry[k].get_schema
                IN  /\ DOMAIN d = {"type", "function"}
                    /\ d.type = "function"
                    /\ DOMAIN d.function = {"name", "description", "parameters"}
                    /\ d.function.name = given.name
                    /\ d.function.description = given.description
                    /\ DOMAIN d.function.parameters = {"type", "properties", "required"}
                    /\ d.function.parameters.type = "object"
                    /\ d.function.parameters.properties = given.parameters
                    /\ d.function.parameters.required =
                         (IF given.required = PyNone THEN PyList(<<>>) ELSE given.required)

C26_Witness ==
  \E r \in Requests :
    /\ pc[r] = "chat" /\ chat_calls[r] = 2
    /\ Len(registry) = 3
    /\ registry[1].get_schema = PyNone
    /\ chat_tools[r].cls = "list"
    /\ Len(chat_tools[r].v) = 2
    /\ chat_tools[r].v[1].function.parameters.required = PyList(<<>>)
    /\ chat_tools[r].v[2].function.name = "terminal"

\* C30: every handler execution has its result passed to a later reasoning
\* call unless a failure prevents that call: a request the cap ended has
\* executed no handler in its last batch.
C30_NoExecutionBeforeCap ==
  \A r \in Requests :
    (pc[r] = "done" /\ exit_by[r] = "cap") =>
      \A k \in 1..Len(dispatched[r]) : ~dispatched[r][k].executed

\* C24: two loops in flight do not corrupt each other's confirmation
\* requests: the prompt of a request goes through the callback installed for
\* that request, whatever was installed for the other one meanwhile.
C24_OwnCallback ==
  \A r \in Requests :
    (/\ pc[r] = "confirm"
     /\ \A q \in Requests : pc[q] \notin {"idle", "done"}) =>
      cur[r].callback = CallbackOf[r]

\* C25: while one loop is suspended in a reasoning call, a skill execution or
\* a confirmation wait, every other loop in flight can take a step.
C25_OthersCanStep ==
  \A p \in Requests : \A q \in Requests \ {p} :
    (pc[p] \in {"chat", "confirm", "exec"} /\ pc[q] \notin {"idle", "done"}) =>
      ENABLED ConcurrentStep(q)

\* The positions of a message list that hold an assistant tool-call message.
ToolCallMessages(msgs) ==
  {k \in 1..Len(msgs) : "tool_calls" \in DOMAIN msgs[k]}

\* C31: invocations that run concurrently on one planner have isolated
\* message lists and iteration counters: a step in which a request does not
\* move changes neither its list nor its counter; the list of a request under
\* way holds one assistant tool-call message for each batch the request itself
\* has completed, and every tool message in it follows such a message or
\* another tool message.
C31_MessageListsIsolated ==
  /\ [][\A r \in Requests :
          (pc'[r] = pc[r] /\ idx'[r] = idx[r]) =>
             (messages'[r] = messages[r] /\ iteration'[r] = iteration[r])]_vars
  /\ [](\A r \in Requests :
          pc[r] \in {"loop", "chat", "dispatch", "confirm", "exec"} =>
            /\ Cardinality(ToolCallMessages(messages[r])) =
                 (IF pc[r] = "loop" THEN iteration[r] ELSE iteration[r] - 1)
            /\ \A k \in 1..Len(messages[r]) :
                 messages[r][k].role = "tool" =>
                   (k > 1 /\ (\/ messages[r][k - 1].role = "tool"
                              \/ (k - 1) \in ToolCallMessages(messages[r]))))

C31_Witness ==
  \E r \in Requests : \E q \in Requests \ {r} :
    /\ pc[r] = "chat" /\ iteration[r] = 2
    /\ messages[r][Len(messages[r])].role = "tool"
    /\ pc[q] = "chat" /\ iteration[q] = 1
    /\ Len(messages[q]) = 3
    /\ ToolCallMessages(messages[q]) = {}

\* C32: after any sequence of requests, overlapping ones included, the
\* messages written to the memory form user/assistant pairs: once no request
\* is under way, every user message is directly followed by an assistant
\* message.
C32_MemoryInPairs ==
  (\A r \in Requests : pc[r] \in {"idle", "done"}) =>
    \A k \in 1..Len(memory) :
      memory[k].role = "user" =>
        (k < Len(memory) /\ memory[k + 1].role = "assistant")

====
